---------------------------- MODULE Spec2Model ----------------------------
(***************************************************************************)
(* D2D_KPI.py: link-level capacity and power-proxy comparison of direct    *)
(* ("baseline") versus relayed ("D2D") uplinks over three NR bands.         *)
(*                                                                         *)
(* Units of the fixed-point arithmetic (Python computes in floats):        *)
(*   distance      km; nodes lie on the equator, one longitude step = 1 km *)
(*   power proxy   (d / 1000 m)^3 = d_km^3, exact                          *)
(*   fc            0.1 GHz       bw      100 MHz                           *)
(*   lambda_c^2    1e-6 m^2      noise   1e-13 W                           *)
(*   snr           1/100 (so the floor 0.01 is 1), times 10^e              *)
(*   log2          1/256 bit     rate    bw unit * 1/256 bit               *)
(***************************************************************************)
EXTENDS Integers, Sequences, FiniteSets, Bags

\* ------------------------------------------------------------------ bounds
MaxUEs == 2
MaxPos == 1

\* --------------------------------------------------------------- constants
PATH_EXP == 3
BOLTZ_TEMP_K == 4
C_LIGHT_SQ == 8987552
BS_RX_GAIN == 25
UE_TX_GAIN == 1
PARENT_RX_GAIN == 4
MIMO_STREAMS == 4
SNR_FLOOR == 1
NaN == -1

NR_BANDS ==
  << [tag |-> "n77",  fc |-> 37,  bw |-> 2,  eirp_dbm |-> 30],
     [tag |-> "n260", fc |-> 390, bw |-> 16, eirp_dbm |-> 30],
     [tag |-> "n261", fc |-> 280, bw |-> 16, eirp_dbm |-> 30] >>

BS_NAME == "BaseStation"
UE_NAME == "UE"
BANNER == "=== 5G Max BW + 4x4 MIMO Simulation ==="

\* ----------------------------------------------------------------- helpers
Abs(x) == IF x < 0 THEN 0 - x ELSE x

\* Great-circle distance between a row and a point, in km.  Every node of the
\* model has latitude 0, where the haversine formula reduces to
\* EARTH_R * |longitude difference|.
haversine_m(row, bs_lon) == Abs(bs_lon - row.Longitude)

\* 10 ** ((dbm - 30) / 10), for dbm a multiple of 10 not below 30.
dbm_to_w(dbm) == 10 ^ ((dbm - 30) \div 10)

\* Mean of the normal draw: BOLTZ * TEMP_K * bw.
ThermalFloor(bw) == BOLTZ_TEMP_K * bw

\* The draws of np.random.normal(loc = BOLTZ*TEMP_K*bw, scale = 1e-18) the
\* model distinguishes: the mean (the nominal draw) and an outlier, negative
\* and of four times the mean's magnitude.  A draw of exactly 0 has
\* probability 0 and is left out.
NominalDraws(bw) == { ThermalFloor(bw) }
OutlierDraws(bw) == { 0 - 4 * ThermalFloor(bw) }

\* lambda_c ** 2 with lambda_c = C_LIGHT / fc.
LambdaSq(fc) == C_LIGHT_SQ \div (fc * fc)

\* snr_rayleigh: prx / abs(noise) with prx = pt*g_tx*g_rx / (d^3 / lambda^2).
\* A zero distance is replaced by 0.1 m = 10^-4 km, whose cube is 10^-12 km^3:
\* that factor 10^12 is kept as 10^3 in the mantissa and 10^9 in the exponent.
snr_rayleigh(pt, d, fc, g_tx, g_rx, bw, n) ==
  IF d = 0
    THEN [m |-> (pt * g_tx * g_rx * LambdaSq(fc) * 1000) \div Abs(n), e |-> 9]
    ELSE [m |-> (pt * g_tx * g_rx * LambdaSq(fc)) \div ((d ^ PATH_EXP) * Abs(n)),
          e |-> 0]

\* snr < 0.01 on the mantissa/exponent form.
SnrBelowFloor(snr) == snr.m < SNR_FLOOR

\* The SNR used as computed, without the floor.
FloorSnrMissing(snr) == snr

\* max(snr, 0.01)
FloorSnr(snr) == IF SnrBelowFloor(snr) THEN [m |-> SNR_FLOOR, e |-> 0] ELSE snr

\* ---------------------------------------------------------- log2, 8 bits
LogScale == 2 ^ 8
MantScale == 2 ^ 14

\* The largest e with den * 2^e <= num (num >= den > 0).
IntLog2[num \in Nat, den \in Nat] ==
  IF num < 2 * den THEN 0 ELSE 1 + IntLog2[num \div 2, den]

\* Fractional bits of log2(y / MantScale), MantScale <= y < 2 * MantScale, by
\* repeated squaring.
Log2Frac[y \in Nat, k \in Nat] ==
  IF k = 0 THEN 0
  ELSE LET sq == (y * y) \div MantScale
       IN  IF sq >= 2 * MantScale
             THEN 2 ^ (k - 1) + Log2Frac[sq \div 2, k - 1]
             ELSE Log2Frac[sq, k - 1]

\* log2(num / den) in 1/256 bit, num >= den > 0.
Log2Norm[num \in Nat, den \in Nat, e \in Nat] ==
  IF e >= 14 THEN num \div (den * 2 ^ (e - 14))
             ELSE (num * 2 ^ (14 - e)) \div den

Log2Fixed[num \in Nat, den \in Nat] ==
  IntLog2[num, den] * LogScale
    + Log2Frac[Log2Norm[num, den, IntLog2[num, den]], 8]

\* 7 * log2(10) in 1/256 bit.
Log2TenPow7 == (7 * 850) + 3

\* math.log2(1 + snr): snr = m * 10^e / 100.  With e = 9 the value is
\* 1 + m * 10^7, and the added 1 is below the resolution.
Log2OnePlus(snr) ==
  IF snr.e = 0 THEN Log2Fixed[100 + snr.m, 100]
               ELSE Log2Fixed[snr.m, 1] + Log2TenPow7

capacity(bw, snr_lin) == bw * Log2OnePlus(snr_lin)

\* ------------------------------------------------------------- formatting
\* Nearest integer to num / den (den > 0), halves away from zero, computed
\* three decimal digits at a time: round(1000 * num / den).
Round1000(num, den) ==
  LET a  == Abs(num)
      q  == a \div den
      r0 == a % den
      d1 == (r0 * 10) \div den
      r1 == (r0 * 10) % den
      d2 == (r1 * 10) \div den
      r2 == (r1 * 10) % den
      d3 == (r2 * 10) \div den
      r3 == (r2 * 10) % den
      v  == q * 1000 + d1 * 100 + d2 * 10 + d3 + (IF 2 * r3 >= den THEN 1 ELSE 0)
  IN  IF num < 0 THEN 0 - v ELSE v

RoundDiv(num, den) == (2 * num + den) \div (2 * den)

\* fmt_power: one decimal, "mW" below 1e3 and "W" (p / 1e3) from there on.
fmt_power(p) ==
  IF p < 1000 THEN [tenths |-> 10 * p, unit |-> "mW"]
              ELSE [tenths |-> RoundDiv(p, 100), unit |-> "W"]

\* f"{rate / 1e9:.2f} Gbps": hundredths of a Gbit/s; one rate unit is
\* 1e8 / 256 bit/s.
fmt_rate(r) == RoundDiv(10 * r, LogScale)


\* ------------------------------------------------------------------- state
VARIABLES
  df,              \* the node table read from CSV_FILE, a sequence of rows
  pc,              \* position of the script
  tag,             \* index in NR_BANDS of the band being simulated
  i,               \* index in ues of the next row of the running loop
  power_baseline, power_d2d, rate_baseline, rate_d2d,
  parents,         \* relay identifiers collected by the D2D pass, as a bag
  pending,         \* what the relay loop has still to visit, as a bag
  results,         \* one row per finished band
  stdout,          \* what has been printed
  error,           \* the uncaught exception that ended the run, if any
  links,           \* history: the links evaluated in the current band
  outlier_drawn    \* history: whether an outlier noise draw has occurred

vars == << df, pc, tag, i, power_baseline, power_d2d, rate_baseline, rate_d2d,
           parents, pending, results, stdout, error, links,
           outlier_drawn >>

NoError == [kind |-> "none", line |-> 0]

\* Identifiers: the base station is node 0, the UEs are 1..n in row order,
\* and DanglingID is an identifier no row carries.
BS_ID == 0
DanglingID == MaxUEs + 1

BsRow == [Name |-> BS_NAME, ID |-> BS_ID, Longitude |-> 0, ParentID |-> NaN]

\* The UE rows of a table of n UEs, listed by non-decreasing longitude (any
\* table is one of these after its UE rows are permuted and renumbered).
UeRows(n) ==
  { [k \in 1..n |-> [Name |-> UE_NAME, ID |-> k, Longitude |-> pos[k],
                     ParentID |-> par[k]]] :
      pos \in { f \in [1..n -> 0..MaxPos] :
                  \A k \in 1..n : k < n => f[k] <= f[k + 1] },
      par \in [1..n -> {NaN, BS_ID, DanglingID} \cup (1..n)] }

\* The tables the run may be given: at most one base-station row (the first
\* row) and up to MaxUEs UE rows, each with no parent, the base station, any
\* UE (itself included) or a missing node as its parent.
Topologies ==
  UNION { UeRows(n) \cup { << BsRow >> \o u : u \in UeRows(n) } : n \in 0..MaxUEs }

\* df[df["Name"] == "BaseStation"], df[df["Name"] != "BaseStation"]
BsRows(t) == SelectSeq(t, LAMBDA r : r.Name = BS_NAME)
UesOf(t) == SelectSeq(t, LAMBDA r : r.Name # BS_NAME)
bs == Head(BsRows(df))
ues == UesOf(df)

\* df[df["ID"] == id]
RowsWithID(t, id) == SelectSeq(t, LAMBDA r : r.ID = id)

pd_isna(x) == x = NaN

Band == NR_BANDS[tag]
pt == dbm_to_w(Band.eirp_dbm)

\* The draws open to the next call of noise(bw): a run sees at most one
\* outlier, on any one of its links.
Draws(bw) ==
  NominalDraws(bw) \cup (IF outlier_drawn THEN {} ELSE OutlierDraws(bw))

TypeOK ==
  /\ pc \in {"load", "band", "baseline", "d2d", "relay", "output", "done", "failed"}
  /\ tag \in 1..(Len(NR_BANDS) + 1)
  /\ outlier_drawn \in BOOLEAN

Init ==
  /\ df \in Topologies
  /\ pc = "load"
  /\ tag = 1
  /\ i = 1
  /\ power_baseline = 0 /\ power_d2d = 0 /\ rate_baseline = 0 /\ rate_d2d = 0
  /\ parents = EmptyBag
  /\ pending = EmptyBag
  /\ results = << >>
  /\ stdout = << >>
  /\ error = NoError
  /\ links = << >>
  /\ outlier_drawn = FALSE

\* --------------------------------------------------------------- operators
\* The 0.1 m substitute applied to the power proxy too (0.1 m is below the
\* proxy's resolution; any positive value serves).
PowerProxyClamped(d) == IF d = 0 THEN 1 ELSE d ^ PATH_EXP

\* (d / 1000) ** PATH_EXP
PowerProxy(d) == d ^ PATH_EXP

\* Lines 81-82, 89-90, 98-99: the floored SNR of one link and its rate term.
LinkSnr(d, g_rx, n) ==
  FloorSnr(snr_rayleigh(pt, d, Band.fc, UE_TX_GAIN, g_rx, Band.bw, n))

LinkRate(snr_lin) == MIMO_STREAMS * capacity(Band.bw, snr_lin)

\* A lookup that falls back on the base station when no row matches.
ResolveParentLenient(ue) ==
  IF pd_isna(ue.ParentID) \/ RowsWithID(df, ue.ParentID) = << >>
    THEN << bs >>
    ELSE RowsWithID(df, ue.ParentID)

\* Line 86: the rows the parent lookup selects; the base station's row when
\* the UE has no Parent ID.
ResolveParent(ue) ==
  IF pd_isna(ue.ParentID) THEN << bs >> ELSE RowsWithID(df, ue.ParentID)

\* The relay gain on every uplink.
RxGainAlwaysRelay(parent) == PARENT_RX_GAIN

\* The base-station gain on every uplink.
RxGainNoRelay(parent) == BS_RX_GAIN

\* Line 88: the receive gain of the uplink to `parent`.
RxGain(parent) == IF parent.ID = bs.ID THEN BS_RX_GAIN ELSE PARENT_RX_GAIN

\* Every resolved parent recorded, the base station included.
AddParentAny(set, parent) ==
  IF BagIn(parent.ID, set) THEN set ELSE set (+) SetToBag({parent.ID})

\* A list in place of the set: one copy per UE that names the relay.
AddParentList(set, parent) ==
  IF parent.ID # bs.ID THEN set (+) SetToBag({parent.ID}) ELSE set

\* Lines 92-93: parents.add(parent["ID"]) unless the parent is the base
\* station; a set holds one copy of each element.
AddParent(set, parent) ==
  IF parent.ID # bs.ID /\ ~BagIn(parent.ID, set)
    THEN set (+) SetToBag({parent.ID})
    ELSE set

\* A division that yields inf or nan on a zero divisor instead of raising.
PercentNoRaise(num, den) ==
  IF den = 0 THEN [raised |-> FALSE, inf |-> TRUE, tenths |-> 0]
             ELSE [raised |-> FALSE, inf |-> FALSE, tenths |-> Round1000(num, den)]

\* Lines 102-103: a division of Python numbers raises ZeroDivisionError on a
\* zero divisor; otherwise the percentage, in tenths of a percent.
Percent(num, den) ==
  IF den = 0 THEN [raised |-> TRUE, inf |-> FALSE, tenths |-> 0]
             ELSE [raised |-> FALSE, inf |-> FALSE, tenths |-> Round1000(num, den)]

\* A row that carries the first band's tag whatever the band.
ResultRowStaleTag(power_saving, rate_gain) ==
  [Band |-> NR_BANDS[1].tag,
   Frequency |-> Band.fc,
   BaselinePower |-> fmt_power(power_baseline),
   D2DPower |-> fmt_power(power_d2d),
   PowerSavings |-> power_saving,
   BaselineRate |-> fmt_rate(rate_baseline),
   D2DRate |-> fmt_rate(rate_d2d),
   SumRateGain |-> rate_gain]

\* Lines 105-114: the row of one band.
ResultRow(power_saving, rate_gain) ==
  [Band |-> Band.tag,
   Frequency |-> Band.fc,
   BaselinePower |-> fmt_power(power_baseline),
   D2DPower |-> fmt_power(power_d2d),
   PowerSavings |-> power_saving,
   BaselineRate |-> fmt_rate(rate_baseline),
   D2DRate |-> fmt_rate(rate_d2d),
   SumRateGain |-> rate_gain]

\* ----------------------------------------------------------------- actions
Fail(kind, line) ==
  /\ pc' = "failed"
  /\ error' = [kind |-> kind, line |-> line]

\* Lines 62-64: bs = df[df["Name"] == "BaseStation"].iloc[0] raises
\* IndexError on a table without a base-station row.
Load ==
  /\ pc = "load"
  /\ IF BsRows(df) = << >>
       THEN Fail("IndexError", 63)
       ELSE pc' = "band" /\ error' = error
  /\ UNCHANGED << df, tag, i, power_baseline, power_d2d, rate_baseline, rate_d2d,
                  parents, pending, results, stdout, links, outlier_drawn >>

\* The D2D rate sum carried over from the band before.
KeepRateD2D == rate_d2d

ResetPowerBaseline == 0
ResetPowerD2D == 0
ResetRateBaseline == 0
ResetRateD2D == 0
ResetParents == EmptyBag

\* Lines 69-77: the head of the band loop and the accumulators' reset.  With
\* no UE rows the three loops of the band have no iteration.
BandInit ==
  /\ pc = "band"
  /\ power_baseline' = ResetPowerBaseline
  /\ power_d2d' = ResetPowerD2D
  /\ rate_baseline' = ResetRateBaseline
  /\ rate_d2d' = ResetRateD2D
  /\ parents' = ResetParents
  /\ pending' = parents'
  /\ links' = << >>
  /\ i' = 1
  /\ pc' = IF Len(ues) = 0 THEN "relay" ELSE "baseline"
  /\ UNCHANGED << df, tag, results, stdout, error, outlier_drawn >>

\* Lines 79-83: one iteration of the baseline loop; after the last one the
\* D2D loop starts.
BaselineStep ==
  /\ pc = "baseline"
  /\ \E n \in Draws(Band.bw) :
       LET ue == ues[i]
           d_bs == haversine_m(ue, bs.Longitude)
           snr_lin == LinkSnr(d_bs, BS_RX_GAIN, n)
           rate == LinkRate(snr_lin)
           power == PowerProxy(d_bs)
       IN  /\ rate_baseline' = rate_baseline + rate
           /\ power_baseline' = power_baseline + power
           /\ links' = Append(links, [pass |-> "baseline", from |-> ue.ID,
                                      to |-> bs.ID, d |-> d_bs,
                                      g_rx |-> BS_RX_GAIN, n |-> n,
                                      snr |-> snr_lin, rate |-> rate,
                                      power |-> power])
           /\ outlier_drawn' = (outlier_drawn \/ n \in OutlierDraws(Band.bw))
  /\ IF i < Len(ues) THEN i' = i + 1 /\ pc' = pc
                     ELSE i' = 1 /\ pc' = "d2d"
  /\ UNCHANGED << df, tag, power_d2d, rate_d2d, parents, pending, results,
                  stdout, error >>

\* Lines 85-93: one iteration of the D2D loop.  The parent lookup of line 86
\* raises IndexError when no row carries the Parent ID.  After the last
\* iteration the relay loop of line 95 starts over the collected set.
D2DStep ==
  /\ pc = "d2d"
  /\ LET ue == ues[i]
         found == ResolveParent(ue)
     IN  IF found = << >>
           THEN /\ Fail("IndexError", 86)
                /\ UNCHANGED << i, power_d2d, rate_d2d, parents, pending, links,
                                outlier_drawn >>
           ELSE /\ \E n \in Draws(Band.bw) :
                     LET parent == Head(found)
                         d_up == haversine_m(ue, parent.Longitude)
                         g_rx == RxGain(parent)
                         snr_lin_up == LinkSnr(d_up, g_rx, n)
                         rate == LinkRate(snr_lin_up)
                         power == PowerProxy(d_up)
                     IN  /\ rate_d2d' = rate_d2d + rate
                         /\ power_d2d' = power_d2d + power
                         /\ parents' = AddParent(parents, parent)
                         /\ links' = Append(links, [pass |-> "d2d", from |-> ue.ID,
                                                    to |-> parent.ID, d |-> d_up,
                                                    g_rx |-> g_rx, n |-> n,
                                                    snr |-> snr_lin_up,
                                                    rate |-> rate, power |-> power])
                         /\ outlier_drawn' =
                              (outlier_drawn \/ n \in OutlierDraws(Band.bw))
                /\ IF i < Len(ues)
                     THEN i' = i + 1 /\ pc' = pc /\ pending' = pending
                     ELSE i' = i /\ pc' = "relay" /\ pending' = parents'
                /\ error' = error
  /\ UNCHANGED << df, tag, power_baseline, rate_baseline, results, stdout >>

\* Lines 95-100: one iteration of the relay loop; a set is iterated in an
\* order the script does not choose.
RelayStep ==
  /\ pc = "relay"
  /\ \E pid \in BagToSet(pending) :
       \E n \in Draws(Band.bw) :
         LET parent == Head(RowsWithID(df, pid))
             d_pb == haversine_m(parent, bs.Longitude)
             snr_lin_pb == LinkSnr(d_pb, BS_RX_GAIN, n)
             rate == LinkRate(snr_lin_pb)
             power == PowerProxy(d_pb)
         IN  /\ rate_d2d' = rate_d2d + rate
             /\ power_d2d' = power_d2d + power
             /\ pending' = pending (-) SetToBag({pid})
             /\ links' = Append(links, [pass |-> "relay", from |-> pid,
                                        to |-> bs.ID, d |-> d_pb,
                                        g_rx |-> BS_RX_GAIN, n |-> n,
                                        snr |-> snr_lin_pb, rate |-> rate,
                                        power |-> power])
             /\ outlier_drawn' = (outlier_drawn \/ n \in OutlierDraws(Band.bw))
  /\ UNCHANGED << df, pc, tag, i, power_baseline, rate_baseline, parents, results,
                  stdout, error >>

\* Lines 102-114: the percentages and the band's row; after the last band
\* the loop of line 69 is exhausted.
Derive ==
  /\ pc = "relay"
  /\ pending = EmptyBag
  /\ LET power_saving == Percent(power_baseline - power_d2d, power_baseline)
         rate_gain == Percent(rate_d2d - rate_baseline, rate_baseline)
     IN  IF power_saving.raised
           THEN Fail("ZeroDivisionError", 102) /\ UNCHANGED << tag, results >>
         ELSE IF rate_gain.raised
           THEN Fail("ZeroDivisionError", 103) /\ UNCHANGED << tag, results >>
         ELSE /\ results' = Append(results, ResultRow(power_saving, rate_gain))
              /\ tag' = tag + 1
              /\ pc' = IF tag < Len(NR_BANDS) THEN "band" ELSE "output"
              /\ error' = error
  /\ UNCHANGED << df, i, power_baseline, power_d2d, rate_baseline, rate_d2d,
                  parents, pending, stdout, links, outlier_drawn >>

\* Lines 117-119: the banner and the table.
Output ==
  /\ pc = "output"
  /\ stdout' = << BANNER, results >>
  /\ pc' = "done"
  /\ UNCHANGED << df, tag, i, power_baseline, power_d2d, rate_baseline, rate_d2d,
                  parents, pending, results, error, links, outlier_drawn >>

Next ==
  \/ Load
  \/ BandInit
  \/ BaselineStep
  \/ D2DStep
  \/ RelayStep
  \/ Derive
  \/ Output

Spec == Init /\ [][Next]_vars


\* ---------------------------------------------------- what the table implies
RECURSIVE SumSeq(_)
SumSeq(s) == IF s = << >> THEN 0 ELSE Head(s) + SumSeq(Tail(s))

HasBS == BsRows(df) # << >>
NodeIDs == { df[k].ID : k \in 1..Len(df) }
UeIdx == 1..Len(ues)

UeByID(id) == Head(RowsWithID(df, id))

Dangling(ue) == ~pd_isna(ue.ParentID) /\ RowsWithID(df, ue.ParentID) = << >>
NoDangling == \A k \in UeIdx : ~Dangling(ues[k])

\* The distinct Parent IDs that are not the base station's.
RelayParents == { ues[k].ParentID : k \in UeIdx } \ { NaN, bs.ID }
Namers(pid) == { k \in UeIdx : ues[k].ParentID = pid }

AllAtBS == \A k \in UeIdx : ues[k].Longitude = bs.Longitude

\* Distances in km, from the longitudes of the table alone.
DistToBS(row) == Abs(row.Longitude - bs.Longitude)
DistToParent(ue) ==
  IF pd_isna(ue.ParentID) THEN DistToBS(ue)
  ELSE Abs(ue.Longitude - Head(RowsWithID(df, ue.ParentID)).Longitude)

Cube(d) == d * d * d
ExpBaselinePower == SumSeq([k \in UeIdx |-> Cube(DistToBS(ues[k]))])
ExpUplinkPower == SumSeq([k \in UeIdx |-> Cube(DistToParent(ues[k]))])
ExpHopPower ==
  SumSeq([k \in UeIdx |-> IF ues[k].ID \in RelayParents
                            THEN Cube(DistToBS(ues[k])) ELSE 0])

\* Positions of the run within the current band.
LinksOf(pass) == SelectSeq(links, LAMBDA l : l.pass = pass)
SumRates(pass) == SumSeq([k \in 1..Len(LinksOf(pass)) |-> LinksOf(pass)[k].rate])
HopCount(pid) ==
  Len(SelectSeq(links, LAMBDA l : l.pass = "relay" /\ l.from = pid))
LastLink == links[Len(links)]

BaselinePassDone ==
  \/ pc \in {"d2d", "relay"}
  \/ pc \in {"band", "output", "done"} /\ results # << >>
  \/ pc = "failed" /\ error.line # 63
D2DPassDone ==
  \/ pc = "relay"
  \/ pc \in {"band", "output", "done"} /\ results # << >>
  \/ pc = "failed" /\ error.kind = "ZeroDivisionError"
RelayLoopDone ==
  \/ pc = "relay" /\ pending = EmptyBag
  \/ pc \in {"band", "output", "done"} /\ results # << >>
  \/ pc = "failed" /\ error.kind = "ZeroDivisionError"
BandEnd == pc = "relay" /\ pending = EmptyBag

\* ------------------------------------------------------------------ claims
\* C1: in every band the relay loop adds exactly one relay-to-base hop (one
\* rate term and one power-proxy term) for each distinct relay identifier,
\* however many UEs name that relay as their parent, and none for any other
\* node.
C1_OneHopPerRelay ==
  HasBS =>
    /\ \A pid \in NodeIDs : HopCount(pid) <= 1
    /\ RelayLoopDone =>
         /\ \A pid \in NodeIDs :
              HopCount(pid) = (IF pid \in RelayParents THEN 1 ELSE 0)
         /\ Len(LinksOf("relay")) = Cardinality(RelayParents)
         /\ power_d2d = ExpUplinkPower + ExpHopPower
         /\ rate_d2d = SumRates("d2d") + SumRates("relay")

C1_Witness ==
  /\ HasBS
  /\ RelayLoopDone
  /\ \E pid \in RelayParents :
       Cardinality(Namers(pid)) >= 2 /\ HopCount(pid) = 1

\* C9: in the D2D pass a link uses PARENT_RX_GAIN exactly when the resolved
\* parent is not the base station, exactly then the parent's identifier is
\* recorded; after the pass the relay set is the set of distinct Parent IDs
\* other than the base station's, which is never in it.
C9_RelaySet ==
  HasBS =>
    /\ \A k \in 1..Len(links) :
         links[k].pass = "d2d" =>
           /\ (links[k].to # bs.ID) <=> BagIn(links[k].to, parents)
           /\ (links[k].g_rx = PARENT_RX_GAIN) <=> (links[k].to # bs.ID)
           /\ (links[k].g_rx = BS_RX_GAIN) <=> (links[k].to = bs.ID)
           /\ LET pid == UeByID(links[k].from).ParentID
              IN  links[k].to = (IF pd_isna(pid) THEN bs.ID ELSE pid)
    /\ ~BagIn(bs.ID, parents)
    /\ D2DPassDone => BagToSet(parents) = RelayParents

C9_Witness ==
  /\ HasBS
  /\ pc = "relay"
  /\ \E k \in UeIdx : ues[k].ParentID = bs.ID
  /\ \E k \in UeIdx : ues[k].ParentID \in RelayParents
  /\ BagToSet(parents) = RelayParents

\* C5: the four accumulators are never negative, every SNR handed to the
\* capacity computation is at least the floor 0.01 whatever the noise draw,
\* and every link's rate term is strictly positive.
C5_NonNegative ==
  /\ power_baseline >= 0 /\ power_d2d >= 0
  /\ rate_baseline >= 0 /\ rate_d2d >= 0
  /\ \A k \in 1..Len(links) :
       links[k].snr.m >= SNR_FLOOR /\ links[k].rate > 0

\* A link whose raw SNR is below the floor (an outlier draw) has been floored.
C5_Witness ==
  /\ links # << >>
  /\ LastLink.n < 0
  /\ SnrBelowFloor(snr_rayleigh(pt, LastLink.d, Band.fc, UE_TX_GAIN,
                                LastLink.g_rx, Band.bw, LastLink.n))
  /\ LastLink.snr = [m |-> SNR_FLOOR, e |-> 0]
  /\ LastLink.rate > 0

\* C10: the 0.1 m substitute for a zero distance acts inside the SNR only: a
\* zero-length link adds a positive rate and exactly 0 to the power proxy.
\* With a UE the baseline rate sum is positive, so line 103 never divides by
\* zero; the baseline power-proxy sum is 0, and line 102 divides by zero,
\* exactly when there is no UE or every UE is at the base station.
C10_ZeroDistance ==
  HasBS =>
    /\ \A k \in 1..Len(links) :
         links[k].d = 0 =>
           links[k].rate > 0 /\ links[k].power = 0 /\ links[k].snr.e = 9
    /\ (BaselinePassDone /\ Len(ues) >= 1) => rate_baseline > 0
    /\ BaselinePassDone => ((power_baseline = 0) <=> AllAtBS)
    /\ error.kind = "ZeroDivisionError" => (error.line = 102 /\ AllAtBS)
    /\ AllAtBS => (results = << >> /\ pc \notin {"output", "done"})
    /\ (BandEnd /\ AllAtBS) => ENABLED Derive

C10_Witness ==
  /\ HasBS
  /\ Len(ues) >= 1
  /\ pc = "failed"
  /\ error = [kind |-> "ZeroDivisionError", line |-> 102]
  /\ rate_baseline > 0
  /\ power_baseline = 0


\* C3: a UE with no Parent ID is evaluated by the D2D pass over the same
\* distance (to the base station) and with the same receive gain
\* (BS_RX_GAIN) as by the baseline pass: its two power-proxy terms are equal
\* and its two rate terms are equal whenever the two noise draws are.
BaselineLinkOf(id) ==
  Head(SelectSeq(links, LAMBDA l : l.pass = "baseline" /\ l.from = id))

C3_DirectUE ==
  HasBS =>
    \A k \in 1..Len(links) :
      (links[k].pass = "d2d" /\ pd_isna(UeByID(links[k].from).ParentID)) =>
        LET b == BaselineLinkOf(links[k].from)
        IN  /\ links[k].to = bs.ID
            /\ links[k].d = b.d
            /\ links[k].d = DistToBS(UeByID(links[k].from))
            /\ links[k].g_rx = b.g_rx
            /\ links[k].g_rx = BS_RX_GAIN
            /\ links[k].power = b.power
            /\ links[k].n = b.n => links[k].rate = b.rate

\* A UE with no parent whose two draws differ, and with them its rate terms.
C3_Witness ==
  /\ HasBS
  /\ links # << >>
  /\ LastLink.pass = "d2d"
  /\ pd_isna(UeByID(LastLink.from).ParentID)
  /\ LastLink.d > 0
  /\ LastLink.power = BaselineLinkOf(LastLink.from).power
  /\ LastLink.n # BaselineLinkOf(LastLink.from).n
  /\ LastLink.rate # BaselineLinkOf(LastLink.from).rate

\* C4: when no UE has a Parent ID and some UE is away from the base station,
\* every band ends its D2D pass with an empty relay set, adds no relay hop,
\* has equal D2D and baseline power-proxy sums and reports a power saving of
\* 0; its two rate sums are equal whenever the draws are equal UE by UE.
NoRelayTopology ==
  /\ HasBS
  /\ \A k \in UeIdx : pd_isna(ues[k].ParentID)
  /\ ~AllAtBS

SameDraws == \A k \in UeIdx : links[k].n = links[Len(ues) + k].n

C4_NoRelay ==
  NoRelayTopology =>
    /\ parents = EmptyBag /\ pending = EmptyBag
    /\ LinksOf("relay") = << >>
    /\ pc # "failed"
    /\ D2DPassDone =>
         /\ power_d2d = power_baseline
         /\ SameDraws => rate_d2d = rate_baseline
    /\ \A r \in 1..Len(results) :
         results[r].PowerSavings = [raised |-> FALSE, inf |-> FALSE, tenths |-> 0]

C4_Witness ==
  /\ NoRelayTopology
  /\ pc = "done"
  /\ Len(results) = Len(NR_BANDS)
  /\ SameDraws
  /\ rate_d2d = rate_baseline
  /\ results[1].SumRateGain.tenths # 0

\* C6: with a Parent ID that matches no node ID the run fails at the parent
\* lookup of the D2D pass of the first band, at the first UE in row order
\* that has such a Parent ID: that UE gets no D2D link, no band gets a row
\* and nothing is printed.
FirstDangling == CHOOSE k \in UeIdx :
  Dangling(ues[k]) /\ \A j \in 1..(k - 1) : ~Dangling(ues[j])

C6_DanglingParent ==
  (HasBS /\ ~NoDangling) =>
    /\ results = << >>
    /\ stdout = << >>
    /\ tag = 1
    /\ pc \notin {"relay", "output", "done"}
    /\ pc = "d2d" => i <= FirstDangling
    /\ \A k \in 1..Len(links) :
         links[k].pass = "d2d" => ~Dangling(UeByID(links[k].from))
    /\ pc = "failed" =>
         /\ error = [kind |-> "IndexError", line |-> 86]
         /\ i = FirstDangling
         /\ Len(LinksOf("baseline")) = Len(ues)
    /\ pc # "failed" => ENABLED Next

C6_Witness ==
  /\ HasBS
  /\ pc = "failed"
  /\ error = [kind |-> "IndexError", line |-> 86]
  /\ i = 2
  /\ Dangling(ues[2])
  /\ Len(LinksOf("d2d")) = 1

\* C7 as stated: a zero baseline sum makes the derivation yield an undefined
\* or infinite percentage, and the band still gets its row.
ZeroBaseline ==
  /\ pc = "relay"
  /\ pending = EmptyBag
  /\ (power_baseline = 0 \/ rate_baseline = 0)

C7_Original ==
  [][ZeroBaseline => /\ pc' # "failed"
                     /\ Len(results') = Len(results) + 1]_vars

\* C7, amended: a zero baseline sum makes the derivation raise an unhandled
\* ZeroDivisionError (at line 102): the run ends there, in the first band,
\* with no row for the band and nothing printed.
C7_ZeroDivisionIsFatal ==
  /\ [][ZeroBaseline => /\ pc' = "failed"
                        /\ error' = [kind |-> "ZeroDivisionError", line |-> 102]
                        /\ results' = results
                        /\ stdout' = stdout]_vars
  /\ [](\A r \in 1..Len(results) :
          ~results[r].PowerSavings.inf /\ ~results[r].SumRateGain.inf)
  /\ [](error.kind = "ZeroDivisionError" =>
          pc = "failed" /\ tag = 1 /\ results = << >> /\ stdout = << >>)

C7_Witness ==
  /\ pc = "failed"
  /\ error.kind = "ZeroDivisionError"
  /\ power_baseline = 0
  /\ results = << >>

\* C2 as stated: every table with a base-station row ends with the table of
\* three rows n77, n260, n261.
TableOK ==
  /\ stdout = << BANNER, results >>
  /\ [r \in 1..Len(results) |-> results[r].Band] = << "n77", "n260", "n261" >>

C2_Original ==
  HasBS => /\ pc # "failed"
           /\ pc = "done" => TableOK

\* C2, amended: every table with a base-station row in which every Parent ID
\* that is set matches a node ID and some UE is away from the base station
\* ends, whatever its number of UE rows, with the table of three rows n77,
\* n260, n261.  On the way nothing is printed, no exception is raised, every
\* loop index is a row of ues, every lookup (lines 86 and 96) selects a row
\* and each band's derivation can be taken.
C2_ThreeRows ==
  (HasBS /\ NoDangling /\ ~AllAtBS) =>
    /\ pc # "failed"
    /\ pc = "done" => TableOK
    /\ pc # "done" => stdout = << >>
    /\ pc \in {"load", "band", "output"} => ENABLED Next
    /\ pc \in {"baseline", "d2d"} => i \in 1..Len(ues)
    /\ pc = "d2d" => ResolveParent(ues[i]) # << >>
    /\ pc = "relay" =>
         /\ \A pid \in BagToSet(pending) : RowsWithID(df, pid) # << >>
         /\ pending = EmptyBag => ENABLED Derive
    /\ [r \in 1..Len(results) |-> results[r].Band] =
         [r \in 1..Len(results) |-> NR_BANDS[r].tag]

C2_Witness ==
  /\ HasBS
  /\ pc = "done"
  /\ Len(ues) = MaxUEs
  /\ RelayParents # {}
  /\ TableOK

\* C8: each band starts from zeroed accumulators and an empty relay set, so
\* its power-proxy sums and relay set are those of the table alone (the same
\* in every band, also in the rows already appended) and its rate sums are
\* those of the table, the band's configuration and the band's own draws; no
\* step changes the node table.
RateOfLink(l) ==
  MIMO_STREAMS * capacity(Band.bw,
    FloorSnr(snr_rayleigh(dbm_to_w(Band.eirp_dbm), l.d, Band.fc, UE_TX_GAIN,
                          l.g_rx, Band.bw, l.n)))

C8_BandState ==
  (HasBS /\ BandEnd) =>
    /\ power_baseline = ExpBaselinePower
    /\ power_d2d = ExpUplinkPower + ExpHopPower
    /\ BagToSet(parents) = RelayParents
    /\ Len(links) = 2 * Len(ues) + Cardinality(RelayParents)
    /\ \A k \in 1..Len(links) : links[k].rate = RateOfLink(links[k])
    /\ rate_baseline = SumRates("baseline")
    /\ rate_d2d = SumRates("d2d") + SumRates("relay")
    /\ \A r \in 1..Len(results) :
         /\ results[r].BaselinePower = fmt_power(ExpBaselinePower)
         /\ results[r].D2DPower = fmt_power(ExpUplinkPower + ExpHopPower)

C8_BandStep ==
  /\ df' = df
  /\ pc = "band" =>
       /\ power_baseline' = 0 /\ power_d2d' = 0
       /\ rate_baseline' = 0 /\ rate_d2d' = 0
       /\ parents' = EmptyBag
       /\ links' = << >>

C8_BandsIndependent == [](C8_BandState) /\ [][C8_BandStep]_vars

\* The last band ends after a band that saw an outlier draw and used relays.
C8_Witness ==
  /\ HasBS
  /\ pc = "relay" /\ pending = EmptyBag
  /\ tag = Len(NR_BANDS)
  /\ Len(results) = 2
  /\ outlier_drawn
  /\ RelayParents # {}
  /\ rate_d2d # rate_baseline

=============================================================================
